---- MODULE Spec2Model ----
(***************************************************************************)
(* Behavioural model of the batch-processing core of AmzWP:               *)
(*   - BatchProcessor (runBatch / processJob / abort),                    *)
(*       src/services/serpapi-service.ts                                   *)
(*   - ApiClient.request (retry, backoff, timeout),                       *)
(*       src/.lovable/plan.md                                              *)
(*   - TaskQueue over p-queue (add / cancel / clear),                     *)
(*       src/lib/task-queue.ts                                             *)
(* JavaScript is single-threaded: every action below is one synchronous   *)
(* run of code between two suspension points (await).                     *)
(***************************************************************************)
EXTENDS Integers, Sequences, FiniteSets, TLC

\* ------------------------------------------------------------------ bounds
MaxPosts == 3
MaxWorkers == 3
MaxPostsLive == 2   \* posts of the runs checked for termination

VARIABLES
  \* ---- BatchProcessor
  posts,          \* number of posts handed to the component (props.posts.length)
  jobs,           \* React state `jobs`: sequence of BatchJob records, index = job
  isRunning,      \* React state `isRunning`
  concurrency,    \* React state `concurrency`
  autoPublish,    \* React state `autoPublish`
  abortRef,       \* abortRef.current
  queue,          \* runBatch local `queue` (shared by the worker closures)
  results,        \* runBatch local `results`
  wpc,            \* per worker closure: where it is suspended
  wjob,           \* per worker closure: the job it holds (0: none)
  wres,           \* per worker closure: the value processJob resolved with
  wfound,         \* per worker closure: processJob local `productsFound`
  claimed,        \* history: how many times each job was shifted and passed to processJob
  pushed,         \* history: how many times pushToWordPress was called per job
  onCompleteCalls,\* history: calls of props.onComplete in the current run
  threw,          \* history: the jobs whose pipeline threw (processJob reached its catch block)
  \* ---- ApiClient (one request() call at a time)
  apiConfig,      \* this.config: [retries, backoffMs, timeoutMs]
  endpoint,       \* environment: how the remote endpoint behaves
  apiPc,          \* where request() is suspended
  attempt,        \* loop variable `attempt`
  res,            \* the Response of the current attempt: [status, json]
  lastError,      \* local `lastError`
  apiResult,      \* what request() resolved or rejected with
  attempts,       \* history: number of fetch() calls issued by the call
  outcomes,       \* history: how each finished attempt ended: [status, err]
  waits,          \* history: the timers the call waited for: [kind, ms]
  \* ---- TaskQueue
  tqConcurrency,  \* PQueue option `concurrency`
  pq,             \* PQueue: the waiting jobs, in queue order (queue.size = Len(pq))
  pendingCount,   \* PQueue: queue.pending
  controllers,    \* this.controllers: task id -> the task whose controller it holds (0: none)
  tstate,         \* per task passed to add(): where it is
  tid,            \* per task: task.id
  aborted,        \* per task: signal.aborted of the controller add() made for it
  tresult,        \* per task: how its run function settled
  cancelledWaiting, \* history: tasks whose controller cancel() aborted while they waited
  afterClear,     \* history: the last TaskQueue operation was clear()
  \* ---- processJob: insertion of the product boxes (auto-publish)
  blocks,         \* number of blocks splitContentIntoBlocks returned (block i is Block(i))
  products,       \* analysis.detectedProducts: the insertionIndex of each product
  sorted,         \* local `sorted`: the products in the order of insertion
  finalParts,     \* local `finalParts`
  insPc,          \* where the insertion is
  insI,           \* the next element of `sorted` the for loop takes
  \* ---- useHistory
  maxHistory,     \* the argument `maxHistory`
  history,        \* the state `history`: [past, present, future]
  \* ---- SerpApiService.searchAmazon
  clock,          \* environment: the time, in steps of TickMs
  cache,          \* the cache service: key -> [value, expires]
  searches        \* per call of searchAmazon: its arguments, position and history

batchVars == <<posts, jobs, isRunning, concurrency, autoPublish, abortRef, queue,
               results, wpc, wjob, wres, wfound, claimed, pushed, onCompleteCalls, threw>>

apiVars == <<apiConfig, endpoint, apiPc, attempt, res, lastError, apiResult, attempts,
             outcomes, waits>>

tqVars == <<tqConcurrency, pq, pendingCount, controllers, tstate, tid, aborted, tresult,
            cancelledWaiting, afterClear>>

insVars == <<blocks, products, sorted, finalParts, insPc, insI>>

histVars == <<maxHistory, history>>

serpVars == <<clock, cache, searches>>

vars == <<batchVars, apiVars, tqVars, insVars, histVars, serpVars>>

\* what the actions of one component leave alone
notBatch == <<apiVars, tqVars, insVars, histVars, serpVars>>
notApi == <<batchVars, tqVars, insVars, histVars, serpVars>>
notTQ == <<batchVars, apiVars, insVars, histVars, serpVars>>
notIns == <<batchVars, apiVars, tqVars, histVars, serpVars>>
notHist == <<batchVars, apiVars, tqVars, insVars, serpVars>>
notSerp == <<batchVars, apiVars, tqVars, insVars, histVars>>

\* ================================================================ helpers
Range(s) == {s[i] : i \in 1..Len(s)}

\* ========================================================= BatchProcessor
Workers == 1..MaxWorkers

\* the <select> of the component offers 1, 2, 3, 5 and 10 workers
ConcurrencyOptions == {n \in {1, 2, 3, 5, 10} : n <= MaxWorkers}

NoError == -1
\* lengths of the messages of the errors the pipeline calls may reject with
\* (0 stands for an error without message)
ErrorLengths == {0, 100, 101}
\* analysis.detectedProducts?.length || 0: none, or some
ProductCounts == {0, 1}
NoContentFoundLen == 16   \* 'No content found'
UnknownErrorLen == 13     \* 'Unknown error'
MaxErrorLen == 100        \* substring(0, 100)

TerminalStatuses == {"completed", "failed", "skipped"}

\* initializeJobs: one job per post
NewJob == [status |-> "queued", progress |-> 0, productsFound |-> 0,
           error |-> NoError, startTime |-> FALSE, endTime |-> FALSE]

NoResult == [id |-> 0, job |-> NewJob]

\* setJobs(prev => prev.map(j => j.id === id ? f(j) : j))
UpdateJob(js, id, rec) == [js EXCEPT ![id] = rec]

\* (mutation of TruncatedMessage: the message is stored as it comes)
TruncatedMessageUncut(len) == IF len = 0 THEN UnknownErrorLen ELSE len

\* error.message?.substring(0, 100) || 'Unknown error'
TruncatedMessage(len) ==
  IF len = 0 THEN UnknownErrorLen
  ELSE IF len > MaxErrorLen THEN MaxErrorLen ELSE len

\* the four values processJob resolves with; `job` is the object taken from
\* the queue, i.e. the job as initializeJobs built it
\* (mutation of Skipped: the spread of the queued job without the new status)
SkippedKeepsStatus == NewJob

Skipped == [NewJob EXCEPT !.status = "skipped"]

\* (mutation of FailedNoContent: the job is marked skipped and keeps the message)
SkippedNoContent ==
  [NewJob EXCEPT !.status = "skipped", !.error = NoContentFoundLen]

FailedNoContent ==
  [NewJob EXCEPT !.status = "failed", !.error = NoContentFoundLen,
                 !.endTime = TRUE, !.startTime = TRUE]

Completed(n) ==
  [NewJob EXCEPT !.status = "completed", !.progress = 100, !.productsFound = n,
                 !.endTime = TRUE, !.startTime = TRUE]

Failed(len) ==
  [NewJob EXCEPT !.status = "failed", !.progress = 0, !.error = TruncatedMessage(len),
                 !.endTime = TRUE, !.startTime = TRUE]

\* while (queue.length > 0 && !abortRef.current)
ShouldClaim(q, ab) == Len(q) > 0 /\ ~ab

\* (mutation of Shifted: the head is read but not removed)
ShiftedKeepsHead(q) == q

\* queue.shift(): what is left in the queue
Shifted(q) == Tail(q)

\* (mutation of WriteResult: the result is pushed but never written to the state)
WriteResultDropped(js, r) == js

\* setJobs(prev => prev.map(j => j.id === result.id ? result : j))
WriteResult(js, r) == UpdateJob(js, r.id, r.job)

\* (mutation of AbortObserved: processJob never looks at the flag)
AbortIgnored(ab) == FALSE

\* if (abortRef.current) return { ...job, status: 'skipped' }
AbortObserved(ab) == ab

\* (mutation of ProcessJobStart: the first checkpoint is set to 50)
ProcessJobStartAt50(b, w, job, ab) ==
  IF AbortObserved(ab)
  THEN [b EXCEPT !.wpc[w] = "ret", !.wjob[w] = job,
                 !.wres[w] = [id |-> job, job |-> Skipped]]
  ELSE [b EXCEPT !.jobs = UpdateJob(@, job, [@[job] EXCEPT !.status = "processing",
                                                    !.progress = 50,
                                                    !.startTime = TRUE]),
                 !.wpc[w] = "fetch", !.wjob[w] = job, !.wres[w] = NoResult]

\* processJob from its call to its first await (fetchRawPostContent)
ProcessJobStart(b, w, job, ab) ==
  IF AbortObserved(ab)
  THEN [b EXCEPT !.wpc[w] = "ret", !.wjob[w] = job,
                 !.wres[w] = [id |-> job, job |-> Skipped]]
  ELSE [b EXCEPT !.jobs = UpdateJob(@, job, [@[job] EXCEPT !.status = "processing",
                                                    !.progress = 10,
                                                    !.startTime = TRUE]),
                 !.wpc[w] = "fetch", !.wjob[w] = job, !.wres[w] = NoResult]

\* one worker closure from its loop test to its next suspension
WorkerLoop(b, w, ab) ==
  IF ShouldClaim(b.queue, ab)
  THEN LET job == Head(b.queue)
       IN ProcessJobStart([b EXCEPT !.queue = Shifted(b.queue),
                                    !.claimed[job] = @ + 1], w, job, ab)
  ELSE [b EXCEPT !.wpc[w] = "done", !.wjob[w] = 0, !.wres[w] = NoResult]

\* Array(concurrency).fill(null).map(async () => ...): the closures are called
\* one after the other, each running synchronously up to its first await
RECURSIVE StartWorkers(_, _, _, _)
StartWorkers(b, w, k, ab) ==
  IF w > k THEN b ELSE StartWorkers(WorkerLoop(b, w, ab), w + 1, k, ab)

\* a continuation of runBatch or of a worker closure is queued as a microtask:
\* it runs before any user event (a click) is dispatched
\* (mutation of AllWorkersDone: Promise.race, the first closure to return)
AnyWorkerDone == \E w \in 1..concurrency : wpc[w] = "done"

\* (mutation of AllWorkersDone: runBatch waits for more closures than it started)
AllPossibleWorkersDone == \A w \in Workers : wpc[w] = "done"

\* await Promise.all(workers)
AllWorkersDone == \A w \in 1..concurrency : wpc[w] = "done"
MicrotaskPending ==
  \/ \E w \in Workers : wpc[w] = "ret"
  \/ isRunning /\ AllWorkersDone

InitBatch ==
  /\ posts \in 0..MaxPosts
  /\ jobs = <<>>
  /\ isRunning = FALSE
  /\ concurrency = 3
  /\ autoPublish = FALSE
  /\ abortRef = FALSE
  /\ queue = <<>>
  /\ results = <<>>
  /\ wpc = [w \in Workers |-> "off"]
  /\ wjob = [w \in Workers |-> 0]
  /\ wres = [w \in Workers |-> NoResult]
  /\ wfound = [w \in Workers |-> 0]
  /\ claimed = [i \in 1..posts |-> 0]
  /\ pushed = [i \in 1..posts |-> 0]
  /\ onCompleteCalls = 0
  /\ threw = {}

\* runBatch up to `await Promise.all(workers)`. The worker select and the
\* auto-publish checkbox are disabled while isRunning; k and ap are what the
\* user has set them to (setConcurrency, setAutoPublish) when Start is clicked.
RunBatch(k, ap) ==
  /\ ~isRunning
  /\ posts > 0
  /\ concurrency' = k
  /\ autoPublish' = ap
  /\ LET b0 == [jobs |-> [i \in 1..posts |-> NewJob],
                queue |-> [i \in 1..posts |-> i],
                wpc |-> [w \in Workers |-> "off"],
                wjob |-> [w \in Workers |-> 0],
                wres |-> [w \in Workers |-> NoResult],
                claimed |-> [i \in 1..posts |-> 0]]
     IN \E b \in {StartWorkers(b0, 1, k, FALSE)} :
          /\ jobs' = b.jobs
          /\ queue' = b.queue
          /\ wpc' = b.wpc
          /\ wjob' = b.wjob
          /\ wres' = b.wres
          /\ claimed' = b.claimed
  /\ isRunning' = TRUE
  /\ abortRef' = FALSE
  /\ results' = <<>>
  /\ wfound' = [w \in Workers |-> 0]
  /\ pushed' = [i \in 1..posts |-> 0]
  /\ onCompleteCalls' = 0
  /\ threw' = {}
  /\ UNCHANGED posts
  /\ UNCHANGED notBatch

\* processJob resolves with `rec`: the worker's `await processJob(job)` is ready
\* (the locals of the finished call are gone)
ProcessJobReturn(w, rec) ==
  /\ wpc' = [wpc EXCEPT ![w] = "ret"]
  /\ wres' = [wres EXCEPT ![w] = [id |-> wjob[w], job |-> rec]]
  /\ wfound' = [wfound EXCEPT ![w] = 0]

\* fetchRawPostContent resolved; contentOk: content && content.length >= 50
FetchResolve(w, contentOk) ==
  /\ wpc[w] = "fetch"
  /\ IF AbortObserved(abortRef)
     THEN ProcessJobReturn(w, Skipped) /\ UNCHANGED jobs
     ELSE IF ~contentOk
     THEN ProcessJobReturn(w, FailedNoContent) /\ UNCHANGED jobs
     ELSE /\ jobs' = UpdateJob(jobs, wjob[w], [jobs[wjob[w]] EXCEPT !.progress = 30])
          /\ wpc' = [wpc EXCEPT ![w] = "analyze"]
          /\ UNCHANGED <<wres, wfound>>
  /\ UNCHANGED <<posts, isRunning, concurrency, autoPublish, abortRef, queue, results,
                 wjob, claimed, pushed, onCompleteCalls, threw>>
  /\ UNCHANGED notBatch

\* the catch block of processJob: the error's message has length len
CatchBlock(w, len) ==
  /\ ProcessJobReturn(w, Failed(len))
  /\ UNCHANGED <<posts, jobs, isRunning, concurrency, autoPublish, abortRef, queue,
                 results, wjob, claimed, pushed, onCompleteCalls>>
  /\ threw' = threw \cup {wjob[w]}

\* fetchRawPostContent rejected
FetchReject(w, len) ==
  /\ wpc[w] = "fetch"
  /\ CatchBlock(w, len)
  /\ UNCHANGED notBatch

\* (mutation of ShouldPublish: the number of products is not looked at)
ShouldPublishAlways(n, ap) == ap

\* if (productsFound > 0 && autoPublish)
ShouldPublish(n, ap) == n > 0 /\ ap

\* analyzeContentAndFindProduct resolved with n detected products
AnalyzeResolve(w, n) ==
  /\ wpc[w] = "analyze"
  /\ IF AbortObserved(abortRef)
     THEN ProcessJobReturn(w, Skipped) /\ UNCHANGED <<jobs, pushed>>
     ELSE /\ jobs' = UpdateJob(jobs, wjob[w],
                               [jobs[wjob[w]] EXCEPT !.progress = 85, !.productsFound = n])
          /\ IF ShouldPublish(n, autoPublish)
             THEN /\ wfound' = [wfound EXCEPT ![w] = n]
                  /\ pushed' = [pushed EXCEPT ![wjob[w]] = @ + 1]
                  /\ wpc' = [wpc EXCEPT ![w] = "publish"]
                  /\ UNCHANGED wres
             ELSE ProcessJobReturn(w, Completed(n)) /\ UNCHANGED pushed
  /\ UNCHANGED <<posts, isRunning, concurrency, autoPublish, abortRef, queue, results,
                 wjob, claimed, onCompleteCalls, threw>>
  /\ UNCHANGED notBatch

\* analyzeContentAndFindProduct rejected (or reading its result threw)
AnalyzeReject(w, len) ==
  /\ wpc[w] = "analyze"
  /\ CatchBlock(w, len)
  /\ UNCHANGED notBatch

\* pushToWordPress resolved
PublishResolve(w) ==
  /\ wpc[w] = "publish"
  /\ ProcessJobReturn(w, Completed(wfound[w]))
  /\ UNCHANGED <<posts, jobs, isRunning, concurrency, autoPublish, abortRef, queue,
                 results, wjob, claimed, pushed, onCompleteCalls, threw>>
  /\ UNCHANGED notBatch

\* pushToWordPress rejected
PublishReject(w, len) ==
  /\ wpc[w] = "publish"
  /\ CatchBlock(w, len)
  /\ UNCHANGED notBatch

\* the worker closure after `await processJob(job)`: push, setJobs, loop again
WorkerContinue(w) ==
  /\ wpc[w] = "ret"
  /\ results' = Append(results, wres[w])
  /\ LET b0 == [jobs |-> WriteResult(jobs, wres[w]), queue |-> queue, wpc |-> wpc,
                wjob |-> wjob, wres |-> wres, claimed |-> claimed]
     IN \E b \in {WorkerLoop(b0, w, abortRef)} :
          /\ jobs' = b.jobs
          /\ queue' = b.queue
          /\ wpc' = b.wpc
          /\ wjob' = b.wjob
          /\ wres' = b.wres
          /\ claimed' = b.claimed
  /\ UNCHANGED <<posts, isRunning, concurrency, autoPublish, abortRef, wfound, pushed,
                 onCompleteCalls, threw>>
  /\ UNCHANGED notBatch

\* runBatch after `await Promise.all(workers)`
RunBatchFinish ==
  /\ isRunning
  /\ AllWorkersDone
  /\ isRunning' = FALSE
  /\ onCompleteCalls' = onCompleteCalls + 1
  /\ UNCHANGED <<posts, jobs, concurrency, autoPublish, abortRef, queue, results,
                 wpc, wjob, wres, wfound, claimed, pushed, threw>>
  /\ UNCHANGED notBatch

\* (mutation of AbortFlag: the flag is toggled)
AbortFlagToggled(ab) == ~ab

\* abortRef.current = true
AbortFlag(ab) == TRUE

\* abort(): the Abort button is rendered while isRunning
Abort ==
  /\ isRunning
  /\ ~MicrotaskPending
  /\ abortRef' = AbortFlag(abortRef)
  /\ UNCHANGED <<posts, jobs, isRunning, concurrency, autoPublish, queue, results,
                 wpc, wjob, wres, wfound, claimed, pushed, onCompleteCalls, threw>>
  /\ UNCHANGED notBatch

NextBatch ==
  \/ \E k \in ConcurrencyOptions, ap \in BOOLEAN : RunBatch(k, ap)
  \/ \E w \in Workers, ok \in BOOLEAN : FetchResolve(w, ok)
  \/ \E w \in Workers, len \in ErrorLengths : FetchReject(w, len)
  \/ \E w \in Workers, n \in ProductCounts : AnalyzeResolve(w, n)
  \/ \E w \in Workers, len \in ErrorLengths : AnalyzeReject(w, len)
  \/ \E w \in Workers : PublishResolve(w)
  \/ \E w \in Workers, len \in ErrorLengths : PublishReject(w, len)
  \/ \E w \in Workers : WorkerContinue(w)
  \/ RunBatchFinish
  \/ Abort

\* ============================================================== ApiClient
MaxRetries == 2

Absent == -1
DefaultRetries == 3
DefaultBackoffMs == 800
DefaultTimeoutMs == 30000

\* const defaultConfig
defaultConfig ==
  [retries |-> DefaultRetries, backoffMs |-> DefaultBackoffMs, timeoutMs |-> DefaultTimeoutMs]

\* the ApiClientConfig objects the constructor is called with (Absent: the
\* optional field is left out)
GivenConfigs ==
  [retries : {Absent} \cup 0..MaxRetries, backoffMs : {Absent, 100}, timeoutMs : {Absent, 50}]

\* constructor: this.config = { ...defaultConfig, ...config }
MergedConfig(given) ==
  [f \in DOMAIN defaultConfig |-> IF given[f] = Absent THEN defaultConfig[f] ELSE given[f]]

\* the statuses a Response is modelled with
Statuses == {200, 299, 300, 404, 499, 500, 599}

\* res.ok
Ok(status) == status >= 200 /\ status <= 299

\* (mutation of IsServerError: every status from 400 up is retried)
IsServerErrorFrom400(status) == status >= 400 /\ status < 600

\* res.status >= 500 && res.status < 600
IsServerError(status) == status >= 500 /\ status < 600

\* (mutation of AttemptsRemain: off by one)
AttemptsRemainInclusive(a, r) == a <= r

\* attempt < retries
AttemptsRemain(a, r) == a < r

\* Math.pow(2, n)
RECURSIVE Pow2(_)
Pow2(n) == IF n = 0 THEN 1 ELSE 2 * Pow2(n - 1)

\* (mutation of Backoff: the exponent is the number of the next attempt)
BackoffOfNext(cfg, a) == cfg.backoffMs * Pow2(a + 1)

\* backoffMs * Math.pow(2, attempt)
Backoff(cfg, a) == cfg.backoffMs * Pow2(a)

NoResponse == [status |-> 0, json |-> FALSE]
NoErr == [name |-> "none", status |-> 0, body |-> "none"]
\* new ApiError(res.status, ..., body)
ApiError(status, body) == [name |-> "ApiError", status |-> status, body |-> body]
\* an error thrown by fetch() or by reading the body
ThrownError(name) == [name |-> name, status |-> 0, body |-> "none"]
\* new Error(`Request to ${url} failed`)
RequestFailed == ThrownError("Error")

\* (mutation of IsRetryableError: a timeout is not retried)
IsRetryableNetworkOnly(e) == e.name = "TypeError"

\* error?.name === 'AbortError' || error?.name === 'TypeError'
IsRetryableError(e) == e.name = "AbortError" \/ e.name = "TypeError"

Endpoints == {"any", "always500", "silent"}

InitApi ==
  /\ apiConfig \in {MergedConfig(g) : g \in GivenConfigs}
  /\ endpoint \in Endpoints
  /\ apiPc = "idle"
  /\ attempt = 0
  /\ res = NoResponse
  /\ lastError = NoErr
  /\ apiResult = NoErr
  /\ attempts = 0
  /\ outcomes = <<>>
  /\ waits = <<>>

ParkedApi ==
  /\ apiConfig = defaultConfig
  /\ endpoint = "any"
  /\ apiPc = "idle"
  /\ attempt = 0
  /\ res = NoResponse
  /\ lastError = NoErr
  /\ apiResult = NoErr
  /\ attempts = 0
  /\ outcomes = <<>>
  /\ waits = <<>>

\* the loop test and what follows it: the next fetchWithTimeout, or the code
\* after the loop
LoopTest(a) ==
  IF a <= apiConfig.retries
  THEN /\ apiPc' = "fetch"
       /\ attempts' = attempts + 1
       /\ UNCHANGED apiResult
  ELSE /\ apiPc' = "rejected"
       /\ apiResult' = IF lastError' # NoErr THEN lastError' ELSE RequestFailed
       /\ UNCHANGED attempts

\* request(url, init) is called (a client is reused once a call has settled)
Request ==
  /\ apiPc \in {"idle", "resolved", "rejected"}
  /\ attempt' = 0
  /\ res' = NoResponse
  /\ lastError' = NoErr
  /\ outcomes' = <<>>
  /\ waits' = <<>>
  /\ IF 0 <= apiConfig.retries
     THEN apiPc' = "fetch" /\ attempts' = 1 /\ apiResult' = NoErr
     ELSE apiPc' = "rejected" /\ attempts' = 0 /\ apiResult' = RequestFailed
  /\ UNCHANGED <<apiConfig, endpoint>>
  /\ UNCHANGED notApi

\* (mutation of Recorded: only the first error is kept)
RecordedFirst(prev, e) == IF prev = NoErr THEN e ELSE prev

\* lastError = error
Recorded(prev, e) == e

\* the catch block of request(): error e was thrown in attempt `attempt`;
\* w: the timers waited for so far
CatchError(e, w) ==
  /\ lastError' = Recorded(lastError, e)
  /\ res' = NoResponse
  /\ IF IsRetryableError(e) /\ AttemptsRemain(attempt, apiConfig.retries)
     THEN /\ apiPc' = "sleep"
          /\ waits' = Append(w, [kind |-> "sleep", ms |-> Backoff(apiConfig, attempt)])
          /\ UNCHANGED <<apiResult, attempt, attempts>>
     ELSE /\ apiPc' = "rejected"           \* break; throw lastError
          /\ apiResult' = lastError'
          /\ waits' = w
          /\ UNCHANGED <<attempt, attempts>>

\* fetch() resolved with a Response before the timer fired
FetchResponds(status, json) ==
  /\ apiPc = "fetch"
  /\ endpoint = "any" \/ (endpoint = "always500" /\ status = 500)
  /\ res' = [status |-> status, json |-> json]
  /\ apiPc' = IF Ok(status) THEN "body" ELSE "errbody"
  /\ UNCHANGED <<apiConfig, endpoint, attempt, lastError, apiResult, attempts, outcomes,
                 waits>>
  /\ UNCHANGED notApi

\* fetch() rejected with a TypeError (connection failure)
FetchNetworkError ==
  /\ apiPc = "fetch"
  /\ endpoint = "any"
  /\ outcomes' = Append(outcomes, [status |-> 0, err |-> "TypeError", body |-> "none"])
  /\ CatchError(ThrownError("TypeError"), waits)
  /\ UNCHANGED <<apiConfig, endpoint>>
  /\ UNCHANGED notApi

\* fetchWithTimeout: the timer fired, controller.abort() made fetch() reject
FetchTimeout ==
  /\ apiPc = "fetch"
  /\ endpoint \in {"any", "silent"}
  /\ outcomes' = Append(outcomes, [status |-> 0, err |-> "AbortError", body |-> "none"])
  /\ CatchError(ThrownError("AbortError"),
                Append(waits, [kind |-> "timeout", ms |-> apiConfig.timeoutMs]))
  /\ UNCHANGED <<apiConfig, endpoint>>
  /\ UNCHANGED notApi

\* !res.ok: `await res.text().catch(() => undefined)` settled
ErrorBodyRead(body) ==
  /\ apiPc = "errbody"
  /\ outcomes' = Append(outcomes, [status |-> res.status, err |-> "none", body |-> body])
  /\ IF IsServerError(res.status) /\ AttemptsRemain(attempt, apiConfig.retries)
     THEN /\ apiPc' = "sleep"
          /\ waits' = Append(waits, [kind |-> "sleep", ms |-> Backoff(apiConfig, attempt)])
          /\ res' = NoResponse
          /\ UNCHANGED <<lastError, apiResult, attempt, attempts>>
     ELSE CatchError(ApiError(res.status, body), waits)   \* the throw lands in the catch
  /\ UNCHANGED <<apiConfig, endpoint>>
  /\ UNCHANGED notApi

\* res.ok: `await res.json()` or `await res.text()` resolved
BodyDecoded ==
  /\ apiPc = "body"
  /\ outcomes' = Append(outcomes, [status |-> res.status, err |-> "none", body |-> "value"])
  /\ apiPc' = "resolved"
  /\ apiResult' = [name |-> IF res.json THEN "json" ELSE "text", status |-> res.status,
                   body |-> "value"]
  /\ res' = NoResponse
  /\ UNCHANGED <<apiConfig, endpoint, attempt, lastError, attempts, waits>>
  /\ UNCHANGED notApi

\* res.ok: reading the body threw: a SyntaxError from res.json() on a
\* malformed body, or a TypeError when the connection broke while reading
BodyThrows(name) ==
  /\ apiPc = "body"
  /\ name = "SyntaxError" => res.json
  /\ outcomes' = Append(outcomes, [status |-> res.status, err |-> name, body |-> "none"])
  /\ CatchError(ThrownError(name), waits)
  /\ UNCHANGED <<apiConfig, endpoint>>
  /\ UNCHANGED notApi

\* `await sleep(...)` resolved: continue, attempt++
SleepDone ==
  /\ apiPc = "sleep"
  /\ attempt' = attempt + 1
  /\ UNCHANGED <<lastError, res>>
  /\ LoopTest(attempt + 1)
  /\ UNCHANGED <<apiConfig, endpoint, outcomes, waits>>
  /\ UNCHANGED notApi

NextApi ==
  \/ Request
  \/ \E st \in Statuses, json \in BOOLEAN : FetchResponds(st, json)
  \/ FetchNetworkError
  \/ FetchTimeout
  \/ \E body \in {"text", "undefined"} : ErrorBodyRead(body)
  \/ BodyDecoded
  \/ \E name \in {"SyntaxError", "TypeError"} : BodyThrows(name)
  \/ SleepDone

\* ------------------------------------------------------ ApiClient: claims
Settled == apiPc \in {"resolved", "rejected"}

\* C3: one call of request() issues at most retries + 1 fetches whatever the
\* attempts end in; against an endpoint that always answers 500 the call ends
\* rejected, after exactly retries + 1 fetches, with an ApiError of status 500.
C3_RetryBound ==
  /\ attempts <= apiConfig.retries + 1
  /\ (endpoint = "always500" /\ Settled)
       => /\ apiPc = "rejected"
          /\ attempts = apiConfig.retries + 1
          /\ apiResult.name = "ApiError"
          /\ apiResult.status = 500

\* C3 witness: with retries = 2 a call against the always-500 endpoint has
\* been rejected after 3 fetches.
C3_Witness ==
  /\ endpoint = "always500"
  /\ apiPc = "rejected"
  /\ apiConfig.retries = 2
  /\ attempts = 3

\* how the claim classes an attempt's end
EndedIn2xx(o) == o.err = "none" /\ o.status >= 200 /\ o.status <= 299
EndedInOtherStatus(o) ==
  o.err = "none" /\ ~(o.status >= 200 /\ o.status <= 299)
                 /\ ~(o.status >= 500 /\ o.status <= 599)
EndedInDecodeError(o) == o.err = "SyntaxError"

\* C4: after an attempt that ended in a 2xx response, in a non-success status
\* outside 500-599 or in a body-decoding error, the call has settled and no
\* further fetch was issued; after a non-5xx non-success response it is
\* rejected with an ApiError carrying that status and the body read.
C4_NoRetryAfterDefinitive ==
  \A i \in 1..Len(outcomes) :
    /\ (EndedIn2xx(outcomes[i]) \/ EndedInOtherStatus(outcomes[i])
          \/ EndedInDecodeError(outcomes[i]))
         => /\ Settled
            /\ attempts = i
            /\ Len(outcomes) = i
    /\ EndedInOtherStatus(outcomes[i])
         => /\ apiPc = "rejected"
            /\ apiResult = ApiError(outcomes[i].status, outcomes[i].body)

\* C4 witness: a call that was retried once and then got a 404 has been
\* rejected.
C4_Witness ==
  /\ Len(outcomes) = 2
  /\ outcomes[2].status = 404
  /\ apiPc = "rejected"
  /\ apiResult.status = 404

\* the backoff sleeps of the call, in order
Sleeps == SelectSeq(waits, LAMBDA x : x.kind = "sleep")

\* the attempt ended in a way the loop retries: a 5xx response, a network
\* error or a timeout
EndedRetryable(o) ==
  \/ o.err = "none" /\ o.status >= 500 /\ o.status <= 599
  \/ o.err \in {"TypeError", "AbortError"}

\* C15: the k-th backoff sleep of a call, which precedes attempt k (counted
\* from 0), lasts backoffMs * 2^(k-1), whether attempt k-1 ended in a 5xx
\* response, a network error or a timeout.
C15_BackoffDoubles ==
  /\ attempts >= 1
       => Len(Sleeps) = IF apiPc = "sleep" THEN attempts ELSE attempts - 1
  /\ \A k \in 1..Len(Sleeps) :
       /\ Sleeps[k].ms = apiConfig.backoffMs * 2^(k - 1)
       /\ EndedRetryable(outcomes[k])

\* C15 witness: attempt 0 ended in a 500, attempt 1 in a timeout, and with
\* backoffMs = 100 the call slept 100 ms and then 200 ms.
C15_Witness ==
  /\ apiConfig.backoffMs = 100
  /\ Len(Sleeps) = 2
  /\ outcomes[1].status = 500
  /\ outcomes[2].err = "AbortError"
  /\ Sleeps[1].ms = 100
  /\ Sleeps[2].ms = 200
  /\ apiPc = "fetch"

\* the call against the endpoint that never responds has ended rejected with
\* the abort error after retries + 1 fetches, each cancelled after timeoutMs
TimedOutCall ==
  /\ apiPc = "rejected"
  /\ apiResult = ThrownError("AbortError")
  /\ attempts = apiConfig.retries + 1
  /\ \A i \in 1..Len(outcomes) : outcomes[i].err = "AbortError"
  /\ \A i \in 1..Len(waits) :
       /\ waits[i].kind = IF i % 2 = 1 THEN "timeout" ELSE "sleep"
       /\ waits[i].kind = "timeout" => waits[i].ms = apiConfig.timeoutMs

\* C16 as stated: against an endpoint that never responds the call rejects
\* with the abort error after retries + 1 cycles, each a timeout wait followed
\* by a backoff sleep.
C16_TimeoutCycles ==
  (endpoint = "silent" /\ Settled)
    => TimedOutCall /\ Len(waits) = 2 * (apiConfig.retries + 1)

\* C16 amended: the call rejects with the abort error after retries + 1
\* timeout waits with one backoff sleep between two of them: no sleep follows
\* the last timeout.
C16_TimeoutThenBackoffBetween ==
  (endpoint = "silent" /\ Settled)
    => /\ TimedOutCall
       /\ Len(waits) = 2 * apiConfig.retries + 1
       /\ Len(Sleeps) = apiConfig.retries
       /\ waits[Len(waits)].kind = "timeout"

\* C16 witness: with retries = 2 the call against the silent endpoint has been
\* rejected after timeout, sleep, timeout, sleep, timeout.
C16_Witness ==
  /\ endpoint = "silent"
  /\ apiPc = "rejected"
  /\ apiConfig.retries = 2
  /\ Len(waits) = 5
  /\ apiResult.name = "AbortError"

\* C17: the error a call is rejected with is the error of the last attempt
\* made: the ApiError of its response, or the error its fetch or body threw.
C17_LastErrorRaised ==
  apiPc = "rejected"
    => /\ Len(outcomes) = attempts
       /\ Len(outcomes) >= 1
       /\ LET o == outcomes[Len(outcomes)]
          IN apiResult = IF o.err = "none" THEN ApiError(o.status, o.body)
                         ELSE ThrownError(o.err)

\* C17 witness: the attempts of a call with retries = 2 ended in a 500, a
\* network error and a timeout, and the call was rejected with the abort
\* error of the last one.
C17_Witness ==
  /\ apiPc = "rejected"
  /\ apiConfig.retries = 2
  /\ Len(outcomes) = 3
  /\ outcomes[1].status = 500
  /\ outcomes[2].err = "TypeError"
  /\ outcomes[3].err = "AbortError"
  /\ apiResult = ThrownError("AbortError")

\* ============================================================== TaskQueue
MaxTasks == 3

Tasks == 1..MaxTasks
\* the ids callers tag tasks with (TaskDefinition.id is any string)
TaskIds == {"a", "b"}
NoId == "-"

DefaultQueueConcurrency == 4

\* new PQueue({ concurrency: options.concurrency ?? 4 })
QueueConcurrency(opt) == IF opt = Absent THEN DefaultQueueConcurrency ELSE opt

\* (mutation of ConcurrencyAllows: off by one)
ConcurrencyAllowsOneMore(p, c) == p <= c

\* PQueue: a job may start while pending < concurrency
ConcurrencyAllows(p, c) == p < c

\* (mutation of Dequeued: the newest job is taken)
DequeuedLast(q) == [job |-> q[Len(q)], rest |-> SubSeq(q, 1, Len(q) - 1)]

\* PQueue: dequeue() takes the head (all jobs have priority 0)
Dequeued(q) == [job |-> Head(q), rest |-> Tail(q)]

\* controller.abort() for the controllers of the tasks ts
Aborted(ab, ts) == [t \in Tasks |-> ab[t] \/ t \in ts]

\* PQueue: start the next waiting job if the concurrency allows it; q is a
\* record [pq, pendingCount, tstate]
TryToStartAnother(q) ==
  IF Len(q.pq) > 0 /\ ConcurrencyAllows(q.pendingCount, tqConcurrency)
  THEN LET d == Dequeued(q.pq)
       IN [pq |-> d.rest, pendingCount |-> q.pendingCount + 1,
           tstate |-> [q.tstate EXCEPT ![d.job] = "running"]]
  ELSE q

\* the tasks add() has been called with so far are 1..AddedCount
AddedCount == Cardinality({t \in Tasks : tstate[t] # "new"})

RunningTasks == {t \in Tasks : tstate[t] = "running"}
WaitingTasks == {t \in Tasks : tstate[t] = "waiting"}
StartedTasks == {t \in Tasks : tstate[t] \in {"running", "settled", "done"}}

InitTQ ==
  /\ tqConcurrency \in {QueueConcurrency(o) : o \in {Absent, 1, 2}}
  /\ pq = <<>>
  /\ pendingCount = 0
  /\ controllers = [i \in TaskIds |-> 0]
  /\ tstate = [t \in Tasks |-> "new"]
  /\ tid = [t \in Tasks |-> NoId]
  /\ aborted = [t \in Tasks |-> FALSE]
  /\ tresult = [t \in Tasks |-> "none"]
  /\ cancelledWaiting = {}
  /\ afterClear = FALSE

ParkedTQ ==
  /\ tqConcurrency = DefaultQueueConcurrency
  /\ pq = <<>>
  /\ pendingCount = 0
  /\ controllers = [i \in TaskIds |-> 0]
  /\ tstate = [t \in Tasks |-> "new"]
  /\ tid = [t \in Tasks |-> NoId]
  /\ aborted = [t \in Tasks |-> FALSE]
  /\ tresult = [t \in Tasks |-> "none"]
  /\ cancelledWaiting = {}
  /\ afterClear = FALSE

\* add(task) up to `await this.queue.add(...)`: the controller is registered
\* under task.id, the job is enqueued and PQueue starts it if it may. Ids are
\* only compared with each other: the first task added is given the id "a".
Add(id) ==
  /\ AddedCount < MaxTasks
  /\ AddedCount = 0 => id = "a"
  /\ LET t == AddedCount + 1
     IN /\ tid' = [tid EXCEPT ![t] = id]
        /\ controllers' = [controllers EXCEPT ![id] = t]
        /\ \E q \in {TryToStartAnother([pq |-> Append(pq, t), pendingCount |-> pendingCount,
                                       tstate |-> [tstate EXCEPT ![t] = "waiting"]])} :
             /\ pq' = q.pq
             /\ pendingCount' = q.pendingCount
             /\ tstate' = q.tstate
        /\ afterClear' = FALSE
  /\ UNCHANGED <<tqConcurrency, aborted, tresult, cancelledWaiting>>
  /\ UNCHANGED notTQ

\* (mutation of SlotsAfter: the slot of a job that rejected is not freed)
SlotsAfterSuccess(p, how) == IF how = "rejected" THEN p ELSE p - 1

\* PQueue frees the slot of a job when it settles, however it settles
SlotsAfter(p, how) == p - 1

\* the promise of task.run(...) settled: PQueue settles the promise of
\* queue.add, frees the slot (_next) and starts the next waiting job
TaskSettles(t, how) ==
  /\ tstate[t] = "running"
  /\ tresult' = [tresult EXCEPT ![t] = how]
  /\ \E q \in {TryToStartAnother([pq |-> pq, pendingCount |-> SlotsAfter(pendingCount, how),
                                 tstate |-> [tstate EXCEPT ![t] = "settled"]])} :
       /\ pq' = q.pq
       /\ pendingCount' = q.pendingCount
       /\ tstate' = q.tstate
  /\ afterClear' = FALSE
  /\ UNCHANGED <<tqConcurrency, controllers, tid, aborted, cancelledWaiting>>
  /\ UNCHANGED notTQ

\* add(task) after its await: this.controllers.delete(task.id), then return
\* the result or rethrow the error
AddReturns(t) ==
  /\ tstate[t] = "settled"
  /\ controllers' = [controllers EXCEPT ![tid[t]] = 0]
  /\ tstate' = [tstate EXCEPT ![t] = "done"]
  /\ afterClear' = FALSE
  /\ UNCHANGED <<tqConcurrency, pq, pendingCount, tid, aborted, tresult, cancelledWaiting>>
  /\ UNCHANGED notTQ

\* cancel(taskId): this.controllers.get(taskId), the task whose controller is
\* registered under the id, if there is one
CancelTargets(id) == IF controllers[id] # 0 THEN {controllers[id]} ELSE {}

\* (mutation of Cancel: a running task that is cancelled is settled as
\* rejected and gives up its slot)
CancelSettles(id) ==
  /\ IF CancelTargets(id) # {}
     THEN /\ aborted' = Aborted(aborted, CancelTargets(id))
          /\ controllers' = [controllers EXCEPT ![id] = 0]
          /\ cancelledWaiting' =
               cancelledWaiting \cup {t \in CancelTargets(id) : tstate[t] = "waiting"}
          /\ tstate' = [t \in Tasks |->
               IF t \in CancelTargets(id) /\ tstate[t] = "running"
               THEN "settled" ELSE tstate[t]]
          /\ tresult' = [t \in Tasks |->
               IF t \in CancelTargets(id) /\ tstate[t] = "running"
               THEN "rejected" ELSE tresult[t]]
          /\ pendingCount' =
               pendingCount - Cardinality({t \in CancelTargets(id) : tstate[t] = "running"})
     ELSE UNCHANGED <<aborted, controllers, cancelledWaiting, tstate, tresult, pendingCount>>
  /\ afterClear' = FALSE
  /\ UNCHANGED <<tqConcurrency, pq, tid>>
  /\ UNCHANGED notTQ

\* cancel(taskId)
Cancel(id) ==
  /\ IF CancelTargets(id) # {}
     THEN /\ aborted' = Aborted(aborted, CancelTargets(id))
          /\ controllers' = [controllers EXCEPT ![id] = 0]
          /\ cancelledWaiting' =
               cancelledWaiting \cup {t \in CancelTargets(id) : tstate[t] = "waiting"}
     ELSE UNCHANGED <<aborted, controllers, cancelledWaiting>>
  /\ afterClear' = FALSE
  /\ UNCHANGED <<tqConcurrency, pq, pendingCount, tstate, tid, tresult>>
  /\ UNCHANGED notTQ

\* clear(): queue.clear() drops the waiting jobs (their promises stay
\* pending), every registered controller is aborted, the map is emptied
Clear ==
  /\ pq' = <<>>
  /\ tstate' = [t \in Tasks |-> IF tstate[t] = "waiting" THEN "cleared" ELSE tstate[t]]
  /\ aborted' = Aborted(aborted, {controllers[i] : i \in TaskIds} \ {0})
  /\ controllers' = [i \in TaskIds |-> 0]
  /\ afterClear' = TRUE
  /\ UNCHANGED <<tqConcurrency, pendingCount, tid, tresult, cancelledWaiting>>
  /\ UNCHANGED notTQ

NextTQ ==
  \/ \E id \in TaskIds : Add(id)
  \/ \E t \in Tasks, how \in {"resolved", "rejected"} : TaskSettles(t, how)
  \/ \E t \in Tasks : AddReturns(t)
  \/ \E id \in TaskIds : Cancel(id)
  \/ Clear

\* ------------------------------------------------------ TaskQueue: claims
InQueue(t) == \E i \in 1..Len(pq) : pq[i] = t

\* C5: the number of tasks whose run function has started and not yet settled
\* is at most the concurrency of the queue.
C5_RunningAtMostConcurrency == Cardinality(RunningTasks) <= tqConcurrency

\* C5 witness: every slot is taken, a task waits, and a slot was reused after
\* a task completed.
C5_Witness ==
  /\ Cardinality(RunningTasks) = tqConcurrency
  /\ Len(pq) >= 1
  /\ \E t \in Tasks : tstate[t] = "done"

\* C6: a task waits only while every slot is taken (add starts it at once
\* when fewer than C tasks run), and no task has started while a task added
\* before it still waits.
C6_FifoAdmission ==
  /\ Len(pq) > 0 => Cardinality(RunningTasks) = tqConcurrency
  /\ \A t1, t2 \in Tasks :
       (t1 < t2 /\ tstate[t1] = "waiting") => t2 \notin StartedTasks

\* C6 witness: with one slot, task 2 had to wait (it was cancelled while it
\* waited), has been started after task 1 completed, and task 3 still waits.
C6_Witness ==
  /\ tqConcurrency = 1
  /\ tstate[1] = "done"
  /\ 2 \in cancelledWaiting
  /\ tstate[2] = "running"
  /\ tstate[3] = "waiting"

\* C7 as stated: a task that was waiting when cancel reached it is removed
\* from the queue and its run function is never invoked.
C7_CancelledWaitingNeverRuns ==
  \A t \in cancelledWaiting : ~InQueue(t) /\ t \notin StartedTasks

\* C18: when a running task rejects, its slot is released (the head of the
\* queue is started in it, or the slot stays free), and no other task's state,
\* signal or result changes; a task's result is set only when its own run
\* function settles, and its add() returns with that result and touches no
\* other task.
C18_RejectionIsolated ==
  /\ [][\A t \in Tasks :
          (tstate[t] = "running" /\ tstate'[t] = "settled" /\ tresult'[t] = "rejected")
            => /\ IF pq # <<>>
                  THEN /\ tstate'[Head(pq)] = "running"
                       /\ pq' = Tail(pq)
                       /\ pendingCount' = pendingCount
                  ELSE pendingCount' = pendingCount - 1
               /\ \A u \in Tasks \ {t} :
                    /\ tresult'[u] = tresult[u]
                    /\ aborted'[u] = aborted[u]
                    /\ tstate'[u] = tstate[u] \/ (pq # <<>> /\ u = Head(pq))]_vars
  /\ [][\A u \in Tasks :
          tresult'[u] # tresult[u]
            => tstate[u] = "running" /\ tstate'[u] = "settled"]_vars
  /\ [][\A t \in Tasks :
          (tstate[t] = "settled" /\ tstate'[t] = "done")
            => /\ tresult' = tresult
               /\ \A u \in Tasks \ {t} : tstate'[u] = tstate[u]]_vars

\* C18 witness: with one slot, task 1 rejected, task 2 ran after it and
\* resolved, and task 3 is running.
C18_Witness ==
  /\ tqConcurrency = 1
  /\ tstate[1] = "done" /\ tresult[1] = "rejected"
  /\ tstate[2] = "done" /\ tresult[2] = "resolved"
  /\ tstate[3] = "running"

\* C22: cancel(id) that finds the controller of a running task sets that
\* task's signal and changes nothing else: the task stays running, it keeps
\* its slot, no result is set and nothing is dequeued; a running task holds a
\* slot whether or not its signal is set; and a task whose signal is set
\* leaves 'running' only by its own run function settling, resolved or
\* rejected, which is the result add() returns.
C22_CancelIsAdvisory ==
  /\ [][\A id \in TaskIds : \A t \in Tasks :
          ( /\ controllers[id] = t
            /\ controllers'[id] = 0
            /\ tstate[t] = "running"
            /\ ~afterClear'
            /\ \A u \in Tasks : ~(tstate[u] = "settled" /\ tstate'[u] = "done") )
            => /\ aborted'[t]
               /\ \A u \in Tasks \ {t} : aborted'[u] = aborted[u]
               /\ tstate' = tstate
               /\ pendingCount' = pendingCount
               /\ tresult' = tresult
               /\ pq' = pq]_vars
  /\ [](pendingCount = Cardinality(RunningTasks))
  /\ [][\A t \in Tasks :
          (aborted[t] /\ tstate[t] = "running" /\ tstate'[t] # "running")
            => /\ tstate'[t] = "settled"
               /\ tresult'[t] \in {"resolved", "rejected"}
               /\ pendingCount' <= pendingCount]_vars
  /\ [][\A t \in Tasks :
          (tstate[t] = "settled" /\ tstate'[t] # "settled")
            => tstate'[t] = "done" /\ tresult'[t] = tresult[t]]_vars

\* C22 witness: with the tasks added under different ids and none cancelled
\* while it waited, the signal of task 1 was set while it ran and its add()
\* has returned the value its run function resolved with; task 2 has its
\* signal set too, still runs and holds its slot.
C22_Witness ==
  /\ tid[1] = "a" /\ tid[2] = "b"
  /\ cancelledWaiting = {}
  /\ aborted[1] /\ tstate[1] = "done" /\ tresult[1] = "resolved"
  /\ aborted[2] /\ tstate[2] = "running" /\ pendingCount >= 1

\* C27 as stated: the promise of every task add() was called with eventually
\* settles.
C27_EveryPromiseSettles ==
  \A t \in Tasks : (tstate[t] # "new") ~> (tstate[t] = "done")

\* C28 as stated: for every task that waits or runs and has not been
\* cancelled, cancel(task.id) sets the signal of that task.
C28_CancelReachesOwnTask ==
  \A t \in Tasks :
    (tstate[t] \in {"waiting", "running"} /\ ~aborted[t])
      => t \in CancelTargets(tid[t])

\* C8 as stated: right after clear() no task waits, no controller is retained
\* and every running task has its cancellation signal set.
C8_ClearCancelsEverything ==
  afterClear =>
    /\ pq = <<>>
    /\ WaitingTasks = {}
    /\ \A i \in TaskIds : controllers[i] = 0
    /\ \A t \in RunningTasks : aborted[t]

\* ============================== processJob: insertion of the product boxes
MaxBlocks == 3
MaxInserted == 3

\* a product without a numeric insertionIndex
NoIndex == -2

\* the values of insertionIndex: none, negative, inside the content, its end,
\* beyond its end
InsertionIndexes == {NoIndex} \cup (-1..(MaxBlocks + 1))

Block(i) == [kind |-> "block", n |-> i]
\* generateProductBoxHtml(product, ...)
Box(i) == [kind |-> "box", n |-> i]

\* typeof p.insertionIndex === 'number' && p.insertionIndex >= 0
HasInsertionIndex(p) == p # NoIndex /\ p >= 0

\* (mutation of Compare: ascending order)
CompareAscending(a, b) == a - b

\* (a, b) => (b.insertionIndex ?? 0) - (a.insertionIndex ?? 0)
Compare(a, b) == b - a

\* Array.prototype.sort is stable: x goes before the first element that the
\* comparator puts strictly after it
InsertedInOrder(s, x, pos) ==
  LET later == {i \in 1..Len(s) : Compare(pos[x], pos[s[i]]) < 0}
      k == IF later = {} THEN Len(s) + 1
           ELSE CHOOSE i \in later : \A j \in later : i <= j
  IN SubSeq(s, 1, k - 1) \o <<x>> \o SubSeq(s, k, Len(s))

RECURSIVE SortedFrom(_, _, _)
SortedFrom(s, i, pos) ==
  IF i > Len(pos) THEN s
  ELSE SortedFrom(IF HasInsertionIndex(pos[i]) THEN InsertedInOrder(s, i, pos) ELSE s,
                  i + 1, pos)

\* [...products].filter(...).sort(...)
Sorted(pos) == SortedFrom(<<>>, 1, pos)

Min(a, b) == IF a <= b THEN a ELSE b

\* finalParts.splice(idx, 0, boxHtml)
Splice(parts, idx, box) ==
  SubSeq(parts, 1, idx) \o <<box>> \o SubSeq(parts, idx + 1, Len(parts))

RECURSIVE SeqsUpTo(_, _)
SeqsUpTo(S, n) ==
  IF n = 0 THEN {<<>>}
  ELSE LET shorter == SeqsUpTo(S, n - 1)
       IN shorter \cup {Append(q, x) : q \in shorter, x \in S}

InitIns ==
  /\ blocks \in 0..MaxBlocks
  /\ products \in SeqsUpTo(InsertionIndexes, MaxInserted)
  /\ sorted = <<>>
  /\ finalParts = <<>>
  /\ insPc = "start"
  /\ insI = 0

ParkedIns ==
  /\ blocks = 0
  /\ products = <<>>
  /\ sorted = <<>>
  /\ finalParts = <<>>
  /\ insPc = "start"
  /\ insI = 0

\* const blocks = ...; let finalParts = [...blocks]; const sorted = ...
InsertionStart ==
  /\ insPc = "start"
  /\ finalParts' = [i \in 1..blocks |-> Block(i)]
  /\ sorted' = Sorted(products)
  /\ insI' = 1
  /\ insPc' = "loop"
  /\ UNCHANGED <<blocks, products>>
  /\ UNCHANGED notIns

\* one turn of `for (const product of sorted)`
InsertProduct ==
  /\ insPc = "loop"
  /\ insI <= Len(sorted)
  /\ finalParts' = Splice(finalParts, Min(products[sorted[insI]], Len(finalParts)),
                          Box(sorted[insI]))
  /\ insI' = insI + 1
  /\ UNCHANGED <<blocks, products, sorted, insPc>>
  /\ UNCHANGED notIns

\* the loop is over: finalHtml = finalParts.join('\n\n')
InsertionDone ==
  /\ insPc = "loop"
  /\ insI > Len(sorted)
  /\ insPc' = "joined"
  /\ UNCHANGED <<blocks, products, sorted, finalParts, insI>>
  /\ UNCHANGED notIns

NextIns ==
  \/ InsertionStart
  \/ InsertProduct
  \/ InsertionDone

\* -------------------------------------------------------- insertion: claims
\* the detected products all have a position inside the content or at its
\* end, and the positions are strictly decreasing
ValidDecreasing ==
  /\ \A i \in 1..Len(products) : products[i] >= 0 /\ products[i] <= blocks
  /\ \A i, j \in 1..Len(products) : i < j => products[i] > products[j]

\* where the box of product i is in finalParts
BoxAt(i) == CHOOSE q \in 1..Len(finalParts) : finalParts[q] = Box(i)

\* C19: for products with strictly decreasing valid positions, the loop ends
\* with L + N parts, the original blocks in their order, and the box of each
\* product right before the block that was at its position (or last, when the
\* position is L); while it runs, the blocks before the position of a product
\* not yet inserted are where they were.
C19_InsertionOrder ==
  ValidDecreasing =>
    /\ insPc = "joined" =>
         /\ Len(finalParts) = blocks + Len(products)
         /\ SelectSeq(finalParts, LAMBDA x : x.kind = "block")
              = [i \in 1..blocks |-> Block(i)]
         /\ \A i \in 1..Len(products) :
              /\ \E q \in 1..Len(finalParts) : finalParts[q] = Box(i)
              /\ IF products[i] = blocks
                 THEN BoxAt(i) = Len(finalParts)
                 ELSE finalParts[BoxAt(i) + 1] = Block(products[i] + 1)
    /\ insPc = "loop" =>
         \A k \in insI..Len(sorted) :
           /\ products[sorted[k]] <= Len(finalParts)
           /\ \A b \in 1..products[sorted[k]] : finalParts[b] = Block(b)
           /\ products[sorted[k]] < blocks
                => finalParts[products[sorted[k]] + 1] = Block(products[sorted[k]] + 1)

\* C19 witness: three products at positions 3, 1 and 0 have been inserted
\* into three blocks.
C19_Witness ==
  /\ insPc = "joined"
  /\ blocks = 3
  /\ products = <<3, 1, 0>>
  /\ finalParts = <<Box(3), Block(1), Box(2), Block(2), Block(3), Box(1)>>

\* ============================================================= useHistory
MaxHistoryLimit == 2
MaxPastLen == 3

\* the values of the state kept in the history
HistoryValues == {0, 1, 2}

\* Array.prototype.slice(-n): the last n elements; -0 is 0, so slice(-0) is
\* slice(0), the whole array
SliceLast(s, n) ==
  IF n = 0 THEN s ELSE SubSeq(s, Len(s) - Min(n, Len(s)) + 1, Len(s))

\* Array.prototype.slice(0, n): the first n elements
SliceFirst(s, n) == SubSeq(s, 1, Min(n, Len(s)))

\* the updater of set: v is the resolved new present, shouldMerge is
\* options?.merge || (now - lastActionRef.current < 500)
set(prev, v, shouldMerge, limit) ==
  IF shouldMerge /\ Len(prev.past) > 0
  THEN [past |-> prev.past, present |-> v, future |-> <<>>]
  ELSE [past |-> SliceLast(Append(prev.past, prev.present), limit),
        present |-> v, future |-> <<>>]

\* the updater of undo
undo(prev, limit) ==
  IF Len(prev.past) = 0 THEN prev
  ELSE [past |-> SubSeq(prev.past, 1, Len(prev.past) - 1),
        present |-> prev.past[Len(prev.past)],
        future |-> SliceFirst(<<prev.present>> \o prev.future, limit)]

\* the updater of redo
redo(prev) ==
  IF Len(prev.future) = 0 THEN prev
  ELSE [past |-> Append(prev.past, prev.present),
        present |-> Head(prev.future),
        future |-> Tail(prev.future)]

\* reset(newState)
reset(v) == [past |-> <<>>, present |-> v, future |-> <<>>]

\* useHistory(initialState, maxHistory): limits from 0 up to MaxHistoryLimit
\* (the default, 50, is beyond the bound)
InitHist ==
  /\ maxHistory \in 0..MaxHistoryLimit
  /\ history \in {reset(v) : v \in HistoryValues}

ParkedHist ==
  /\ maxHistory = 0
  /\ history = reset(0)

\* set(newPresent, options); past is kept from growing beyond MaxPastLen
Set(v, shouldMerge) ==
  /\ Len(set(history, v, shouldMerge, maxHistory).past) <= MaxPastLen
  /\ history' = set(history, v, shouldMerge, maxHistory)
  /\ UNCHANGED maxHistory
  /\ UNCHANGED notHist

Undo ==
  /\ history' = undo(history, maxHistory)
  /\ UNCHANGED maxHistory
  /\ UNCHANGED notHist

Redo ==
  /\ history' = redo(history)
  /\ UNCHANGED maxHistory
  /\ UNCHANGED notHist

Reset(v) ==
  /\ history' = reset(v)
  /\ UNCHANGED maxHistory
  /\ UNCHANGED notHist

NextHist ==
  \/ \E v \in HistoryValues, shouldMerge \in BOOLEAN : Set(v, shouldMerge)
  \/ Undo
  \/ Redo
  \/ \E v \in HistoryValues : Reset(v)

\* --------------------------------------------------- useHistory: claims
\* C25 as stated: past and future each hold at most maxHistory entries.
C25_HistoryBounded ==
  /\ Len(history.past) <= maxHistory
  /\ Len(history.future) <= maxHistory

\* C26 as stated: with a non-empty past undo followed by redo restores past,
\* present and future; undo with an empty past and redo with an empty future
\* change nothing; every set leaves future empty.
C26_UndoRedoRoundTrip ==
  /\ Len(history.past) > 0 => redo(undo(history, maxHistory)) = history
  /\ Len(history.past) = 0 => undo(history, maxHistory) = history
  /\ Len(history.future) = 0 => redo(history) = history
  /\ \A v \in HistoryValues, shouldMerge \in BOOLEAN :
       set(history, v, shouldMerge, maxHistory).future = <<>>

\* ========================================= SerpApiService.searchAmazon
MaxCalls == 2
MaxTicks == 2

Calls == 1..MaxCalls

\* the queries: two spellings of one product and another product
Queries == {"Shoe", "shoe", "hat"}
NoQuery == "-"

\* (mutation of ToLowerCase: the query is used as it is)
ToLowerCaseIdentity(q) == q

\* query.toLowerCase()
ToLowerCase(q) == IF q = "Shoe" THEN "shoe" ELSE q

\* `serp:search:${query.toLowerCase()}` (the constant prefix is left out)
CacheKey(q) == ToLowerCase(q)

\* the strings the cache may be asked for
CacheKeys == Queries

\* the API keys: none, and one
ApiKeys == {"", "key"}

\* null
Null == "null"
\* the JSON objects search.json answers with
SearchData == {"d1", "d2"}

\* 24 * 60 * 60 * 1000
TtlMs == 24 * 60 * 60 * 1000
\* the clock advances by half a TTL
TickMs == 12 * 60 * 60 * 1000
Never == -1

NowMs == clock * TickMs

NoEntry == [value |-> Null, expires |-> 0]

\* cache.get(key): the value stored under the key while it is valid
CacheGet(c, key, now) == IF c[key].expires > now THEN c[key].value ELSE Null

\* cache.set(key, value, ttl)
CacheSet(c, key, value, ttl, now) ==
  [c EXCEPT ![key] = [value |-> value, expires |-> now + ttl]]

\* if (cached)
Truthy(x) == x # Null

\* (mutation of Caught: the error is thrown again)
Rethrown == [outcome |-> "rejected", value |-> Null]

\* catch (error) { ...; return null; }
Caught == [outcome |-> "resolved", value |-> Null]

NewSearch == [pc |-> "idle", query |-> NoQuery, apiKey |-> "", outcome |-> "pending",
              value |-> Null, requested |-> FALSE, touched |-> FALSE,
              readAt |-> Never, setAt |-> Never, after |-> {}]

InitSerp ==
  /\ clock = 0
  /\ cache = [k \in CacheKeys |-> NoEntry]
  /\ searches = [c \in Calls |-> NewSearch]

ParkedSerp ==
  /\ clock = 0
  /\ cache = [k \in CacheKeys |-> NoEntry]
  /\ searches = [c \in Calls |-> NewSearch]

ReturnedCalls == {c \in Calls : searches[c].pc = "returned"}

\* searchAmazon(query, apiKey) up to its first await; the calls are numbered
\* in the order they are made
SearchAmazon(c, q, k) ==
  /\ searches[c].pc = "idle"
  /\ c > 1 => searches[c - 1].pc # "idle"
  /\ searches' =
       [searches EXCEPT ![c] =
          IF k = ""
          THEN [@ EXCEPT !.pc = "returned", !.query = q, !.apiKey = k,
                         !.outcome = "resolved", !.value = Null, !.after = ReturnedCalls]
          ELSE [@ EXCEPT !.pc = "get", !.query = q, !.apiKey = k, !.touched = TRUE,
                         !.after = ReturnedCalls]]
  /\ UNCHANGED <<clock, cache>>
  /\ UNCHANGED notSerp

\* await this.cache.get(cacheKey) resolves: a hit is returned, a miss goes
\* on to SERP_CLIENT.getJson(url)
CacheGetResolves(c) ==
  /\ searches[c].pc = "get"
  /\ \E cached \in {CacheGet(cache, CacheKey(searches[c].query), NowMs)} :
       searches' =
         [searches EXCEPT ![c] =
            IF Truthy(cached)
            THEN [@ EXCEPT !.pc = "returned", !.outcome = "resolved", !.value = cached,
                           !.readAt = NowMs]
            ELSE [@ EXCEPT !.pc = "request", !.requested = TRUE, !.readAt = NowMs]]
  /\ UNCHANGED <<clock, cache>>
  /\ UNCHANGED notSerp

\* getJson resolves with data: cache.set(cacheKey, data, 24h) is called
GetJsonResolves(c, data) ==
  /\ searches[c].pc = "request"
  /\ cache' = CacheSet(cache, CacheKey(searches[c].query), data, TtlMs, NowMs)
  /\ searches' = [searches EXCEPT ![c] = [@ EXCEPT !.pc = "set", !.value = data,
                                                   !.setAt = NowMs]]
  /\ UNCHANGED clock
  /\ UNCHANGED notSerp

\* await this.cache.set(...) resolves: return data
CacheSetResolves(c) ==
  /\ searches[c].pc = "set"
  /\ searches' = [searches EXCEPT ![c] = [@ EXCEPT !.pc = "returned",
                                                   !.outcome = "resolved"]]
  /\ UNCHANGED <<clock, cache>>
  /\ UNCHANGED notSerp

\* getJson rejects (after the retries of SERP_CLIENT): the catch block
GetJsonRejects(c) ==
  /\ searches[c].pc = "request"
  /\ searches' = [searches EXCEPT ![c] = [@ EXCEPT !.pc = "returned",
                                                   !.outcome = Caught.outcome,
                                                   !.value = Caught.value]]
  /\ UNCHANGED <<clock, cache>>
  /\ UNCHANGED notSerp

\* time passes; a call lasts far less than a tick (SERP_CLIENT gives up after
\* 3 attempts of 12 s), so the clock moves between calls
Tick ==
  /\ clock < MaxTicks
  /\ \A c \in Calls : searches[c].pc \in {"idle", "returned"}
  /\ clock' = clock + 1
  /\ UNCHANGED <<cache, searches>>
  /\ UNCHANGED notSerp

NextSerp ==
  \/ \E c \in Calls, q \in Queries, k \in ApiKeys : SearchAmazon(c, q, k)
  \/ \E c \in Calls : CacheGetResolves(c)
  \/ \E c \in Calls, data \in SearchData : GetJsonResolves(c, data)
  \/ \E c \in Calls : CacheSetResolves(c)
  \/ \E c \in Calls : GetJsonRejects(c)
  \/ Tick

\* ========================================================= specifications
ParkedBatch == InitBatch /\ posts = 0

InitSpecBatch == InitBatch /\ ParkedApi /\ ParkedTQ /\ ParkedIns /\ ParkedHist /\ ParkedSerp

SpecBatch == InitSpecBatch /\ [][NextBatch]_vars

\* the pending pipeline call of worker w settles
Settle(w) ==
  \/ \E ok \in BOOLEAN : FetchResolve(w, ok)
  \/ \E len \in ErrorLengths : FetchReject(w, len)
  \/ \E n \in ProductCounts : AnalyzeResolve(w, n)
  \/ \E len \in ErrorLengths : AnalyzeReject(w, len)
  \/ PublishResolve(w)
  \/ \E len \in ErrorLengths : PublishReject(w, len)

\* every pipeline call settles, and the event loop runs every continuation
\* that is ready
FairBatch ==
  /\ \A w \in Workers : WF_vars(Settle(w)) /\ WF_vars(WorkerContinue(w))
  /\ WF_vars(RunBatchFinish)

InitSpecBatchFair == InitSpecBatch /\ posts <= MaxPostsLive

SpecBatchFair == InitSpecBatchFair /\ [][NextBatch]_vars /\ FairBatch

InitSpecApi == ParkedBatch /\ InitApi /\ ParkedTQ /\ ParkedIns /\ ParkedHist /\ ParkedSerp

SpecApi == InitSpecApi /\ [][NextApi]_vars

\* ------------------------------------------------- BatchProcessor: claims
JobIds == DOMAIN jobs

\* stats.processing
ProcessingCount == Cardinality({j \in JobIds : jobs[j].status = "processing"})

\* runBatch has resolved: setIsRunning(false) and onComplete(results) are done
RunEnded == ~isRunning /\ onCompleteCalls = 1

\* C1: in every reachable state of a batch run the number of jobs whose status
\* is 'processing' is at most the concurrency K of the run.
C1_ProcessingAtMostK == ProcessingCount <= concurrency

\* C1 witness: K >= 2 workers all hold a 'processing' job, one of them claimed
\* after an earlier job had finished.
C1_Witness ==
  /\ isRunning
  /\ concurrency >= 2
  /\ ProcessingCount = concurrency
  /\ Len(results) >= 1

\* C2: every job is shifted from the queue and passed to processJob at most
\* once, and exactly once when the run ends without abort.
C2_ClaimedOnce ==
  /\ \A j \in DOMAIN claimed : claimed[j] <= 1
  /\ (RunEnded /\ ~abortRef) => \A j \in DOMAIN claimed : claimed[j] = 1

\* C2 witness: a run of 3 jobs over 2 concurrent workers has ended without abort.
C2_Witness ==
  /\ RunEnded
  /\ ~abortRef
  /\ posts = 3
  /\ concurrency = 2
  /\ \A j \in DOMAIN claimed : claimed[j] = 1

C10_AllTerminalAtEnd ==
  RunEnded => \A j \in JobIds : jobs[j].status \in TerminalStatuses

\* C11 as stated: a job's endTime is set exactly when its status is terminal,
\* and when the run has ended every job has one of the three terminal statuses.
C11_EndTimeIffTerminal ==
  /\ \A j \in JobIds : jobs[j].endTime <=> jobs[j].status \in TerminalStatuses
  /\ RunEnded => \A j \in JobIds : jobs[j].status \in TerminalStatuses

\* stats: the number of jobs with status s
StatusCount(s) == Cardinality({j \in JobIds : jobs[j].status = s})

\* the jobs that failed without an exception ('No content found')
NoContentJobs == {j \in JobIds : jobs[j].status = "failed" /\ j \notin threw}

C13_StatusPath ==
  [][isRunning =>
       \A j \in JobIds :
         jobs'[j].status # jobs[j].status
           => \/ jobs[j].status = "queued" /\ jobs'[j].status = "processing"
              \/ /\ jobs[j].status = "processing"
                 /\ jobs'[j].status \in {"completed", "failed", "skipped"}]_vars

\* C13 witness: in one run a job has ended 'completed', one 'failed' and one
\* 'skipped'.
C13_Witness ==
  /\ isRunning
  /\ \E j \in JobIds : jobs[j].status = "completed"
  /\ \E j \in JobIds : jobs[j].status = "failed" /\ j \in threw
  /\ \E j \in JobIds : jobs[j].status = "skipped"

\* C14: a call of abort() after the first changes nothing at all - the flag
\* stays set, no job, result or statistic changes - so the run goes on exactly
\* as after one call; and no job is entered twice in the results.
C14_AbortIdempotent ==
  /\ [][(Abort /\ abortRef) => (abortRef' /\ UNCHANGED batchVars)]_vars
  /\ [][(isRunning /\ isRunning' /\ abortRef) => abortRef']_vars
  /\ [](\A i, k \in 1..Len(results) : i # k => results[i].id # results[k].id)

\* C14 witness: abort was called, a job has been skipped on it while another
\* is still in flight, and the Abort button can be clicked again.
C14_Witness ==
  /\ abortRef
  /\ ENABLED Abort
  /\ \E j \in JobIds : jobs[j].status = "skipped"
  /\ \E w \in Workers : wpc[w] \in {"fetch", "analyze", "publish"}

\* C20: if every pipeline call settles, a run that has started ends: runBatch
\* resolves with isRunning false and onComplete called.
C20_RunEnds == isRunning ~> RunEnded

\* C20 witness: a run of 2 jobs in which a pipeline threw and abort was
\* requested has ended.
C20_Witness ==
  /\ RunEnded
  /\ abortRef
  /\ posts = 2
  /\ threw # {}

\* C21: a job's progress is an integer from 0 to 100; while the job is
\* 'processing' it is one of the checkpoints 10, 30, 60, 85 and does not
\* decrease from one state to the next.
C21_ProgressMonotone ==
  /\ [](\A j \in JobIds :
          /\ jobs[j].progress \in 0..100
          /\ jobs[j].status = "processing" => jobs[j].progress \in {10, 30, 60, 85})
  /\ [][\A j \in JobIds :
          (isRunning /\ jobs[j].status = "processing" /\ jobs'[j].status = "processing")
            => jobs'[j].progress >= jobs[j].progress]_vars

\* C21 witness: one job is publishing at progress 85, one has completed at
\* 100 and one has failed (its progress is back to 0).
C21_Witness ==
  /\ isRunning
  /\ \E j \in JobIds : jobs[j].status = "processing" /\ jobs[j].progress = 85 /\ pushed[j] = 1
  /\ \E j \in JobIds : jobs[j].status = "completed" /\ jobs[j].progress = 100
  /\ \E j \in JobIds : jobs[j].status = "failed" /\ jobs[j].progress = 0

\* C24: a job whose error field is set has the status 'failed'.
C24_ErrorOnlyWhenFailed ==
  \A j \in JobIds : jobs[j].error # NoError => jobs[j].status = "failed"

\* C24 witness: a job has failed with 'No content found', one with a thrown
\* error, and a completed and a processing job carry no error.
C24_Witness ==
  /\ \E j \in JobIds : jobs[j].status = "failed" /\ jobs[j].error = NoContentFoundLen
  /\ \E j \in JobIds : jobs[j].status = "completed" /\ jobs[j].error = NoError
  /\ \E j \in JobIds : jobs[j].status = "processing" /\ jobs[j].error = NoError

\* the ids of the entries of `results`
ResultIds == {results[i].id : i \in 1..Len(results)}

\* C29: onComplete is called at most once in a run, only when every worker
\* closure has returned, and exactly once when the run has ended; the results
\* it is passed then hold one entry for each claimed job and nothing else, and
\* one for each post when abort was not requested.
C29_OnCompleteOnce ==
  /\ [](onCompleteCalls <= 1)
  /\ []((~isRunning /\ jobs # <<>>) => onCompleteCalls = 1)
  /\ [](onCompleteCalls = 1
          => /\ ~isRunning
             /\ \A w \in 1..concurrency : wpc[w] = "done"
             /\ ResultIds = {j \in JobIds : claimed[j] >= 1}
             /\ Len(results) = Cardinality(ResultIds)
             /\ ~abortRef => Len(results) = posts /\ ResultIds = 1..posts)
  /\ [][onCompleteCalls' > onCompleteCalls
          => /\ \A w \in 1..concurrency : wpc[w] = "done"
             /\ results' = results]_vars

\* C29 witness: a run of 3 posts aborted on the way has ended with onComplete
\* called once, with 2 results for the 2 jobs that were claimed.
C29_Witness ==
  /\ RunEnded
  /\ abortRef
  /\ posts = 3
  /\ Len(results) = 2
  /\ Cardinality({j \in JobIds : claimed[j] = 1}) = 2

\* C30: pushToWordPress is called at most once per job, and only when
\* auto-publish is on, the analysis found a product and abort was not
\* requested when the analysis resolved (so neither when the fetch resolved);
\* a job whose publish call rejects gets the result 'failed'.
C30_PublishGuarded ==
  /\ [](\A j \in JobIds : pushed[j] <= 1)
  /\ [][\A j \in JobIds :
          (isRunning /\ pushed'[j] > pushed[j])
            => /\ autoPublish
               /\ ~abortRef
               /\ jobs'[j].productsFound > 0
               /\ jobs[j].status = "processing"
               /\ jobs[j].progress = 30]_vars
  /\ [][\A w \in Workers :
          (wpc[w] = "publish" /\ wjob[w] \in threw' /\ wjob[w] \notin threw)
            => wpc'[w] = "ret" /\ wres'[w].job.status = "failed"]_vars
  /\ [](\A j \in JobIds : (j \in threw /\ pushed[j] = 1) => jobs[j].status # "completed")

\* C30 witness: the publish call of one job rejected and the job is 'failed';
\* that of another resolved and the job is 'completed'.
C30_Witness ==
  /\ autoPublish
  /\ \E j \in JobIds : pushed[j] = 1 /\ j \in threw /\ jobs[j].status = "failed"
  /\ \E j \in JobIds : pushed[j] = 1 /\ jobs[j].status = "completed"

InitSpecIns == ParkedBatch /\ ParkedApi /\ ParkedTQ /\ InitIns /\ ParkedHist /\ ParkedSerp

SpecIns == InitSpecIns /\ [][NextIns]_vars

InitSpecTQ == ParkedBatch /\ ParkedApi /\ InitTQ /\ ParkedIns /\ ParkedHist /\ ParkedSerp

\* the run function of every started task settles, and the continuation of
\* add() after its await runs
FairTQ ==
  /\ \A t \in Tasks : WF_vars(\E how \in {"resolved", "rejected"} : TaskSettles(t, how))
  /\ \A t \in Tasks : WF_vars(AddReturns(t))

SpecTQFair == InitSpecTQ /\ [][NextTQ]_vars /\ FairTQ

SpecTQ == InitSpecTQ /\ [][NextTQ]_vars

InitSpecHist == ParkedBatch /\ ParkedApi /\ ParkedTQ /\ ParkedIns /\ InitHist /\ ParkedSerp

SpecHist == InitSpecHist /\ [][NextHist]_vars

InitSpecSerp == ParkedBatch /\ ParkedApi /\ ParkedTQ /\ ParkedIns /\ ParkedHist /\ InitSerp

SpecSerp == InitSpecSerp /\ [][NextSerp]_vars

\* ------------------------------------------ SerpApiService.searchAmazon: claims
\* the two queries are the same when case is ignored
SameQuery(q1, q2) == q1 = q2 \/ {q1, q2} = {"Shoe", "shoe"}

\* the call issued a request that succeeded, and has returned
Succeeded(c) ==
  searches[c].pc = "returned" /\ searches[c].requested /\ searches[c].setAt # Never

\* the call issued a request that failed, and has returned
RequestFailedCall(c) ==
  searches[c].pc = "returned" /\ searches[c].requested /\ searches[c].setAt = Never

\* a call stored data for the query of call c, and the entry was valid when
\* call c looked the query up
ValidEntryFor(c) ==
  \E d \in Calls :
    /\ searches[d].setAt # Never
    /\ SameQuery(searches[d].query, searches[c].query)
    /\ searches[c].readAt < searches[d].setAt + TtlMs

====
